---- MODULE Spec2Model ----
(***************************************************************************)
(* A model of the LLMAnalyst research pipeline (src/LLMAgent): the axiom   *)
(* refinement loop (research.iterative_refinement), the evidence gathering *)
(* of research.iterative_research, the paper assembly loop                 *)
(* (write.write_paper), the code generation loop                           *)
(* (analysis.iterative_statistical_analysis), the seven reply parsers, the *)
(* clarification loop of ask.ask and the file operations of the agent      *)
(* (agent.read_file, write_file, edit_latex_file).                         *)
(* The oracle (the LLM call) is an input: every reply is drawn from a      *)
(* small set of reply documents.                                           *)
(***************************************************************************)
EXTENDS Integers, Sequences, FiniteSets, TLC

VARIABLES
    entry,              \* the function the run calls
    pc,                 \* position of the control flow
    axioms,             \* iterative_refinement: the local list `axioms`
    response_xml,       \* the oracle's last reply
    refined_axioms,     \* iterative_refinement: the parsed reply, counts set
    iteration,          \* iterative_refinement: rounds started so far
    max_iterations,     \* iterative_refinement: parameter
    removal_threshold,  \* iterative_refinement: parameter
    result,             \* the value returned by iterative_refinement
    seen_ids,           \* history: every id that was on a live axiom
    gone_ids,           \* history: every id that left the live list
    axioms_arg,         \* iterative_research: parameter `axioms` (texts)
    pdf_files,          \* iterative_research: parameter
    pdf_index,          \* iterative_research: position of the outer for loop
    sections,           \* iterative_research: sections of the current file
    section_index,      \* iterative_research: position of the inner for loop
    initial_axioms,     \* iterative_research: the axiom list
    evidence_mapping,   \* iterative_research: the dict, in insertion order
    uuid_count,         \* number of uuid4() calls made
    error,              \* the exception that ended the run, or "none"
    summaries_log,      \* history: every parsed summary, in processing order
    read_failure,       \* history: where reading the current file failed
    skeleton,           \* write_paper: the dict, in insertion order
    done,               \* write_paper: the loop's completion flag
    deep_dive_evidence, \* write_paper: the deep-dive text for the next prompt
    requests,           \* oracle requests sent so far by the call
    dive_log,           \* history: sections a deep-dive block was appended to
    final_paper,        \* write_paper: the returned paper
    current_code,       \* iterative_statistical_analysis: the last code
    output,             \* iterative_statistical_analysis: the last output
    prompt,             \* iterative_statistical_analysis: the last prompt
    execution,          \* history: how the last run of the code ended
    user_question,      \* ask: the question typed by the user
    conversation_context, \* ask: the exchanges appended to the context
    questions,          \* ask: the probing questions of the parsed reply
    question_index,     \* ask: position of the for loop over questions
    files,              \* the file system: the text of every existing path
    file_path,          \* LitellmFileSystemAgent: parameter of the last call
    content_arg,        \* write_file: parameter `content` of the last call
    instructions        \* edit_latex_file: parameter of the last call

refinement_vars == <<axioms, response_xml, refined_axioms, iteration,
                     max_iterations, removal_threshold, result, seen_ids,
                     gone_ids>>

research_vars == <<axioms_arg, pdf_files, pdf_index, sections, section_index,
                   initial_axioms, evidence_mapping, uuid_count, error,
                   summaries_log, read_failure>>

write_vars == <<skeleton, done, deep_dive_evidence, requests, dive_log,
                final_paper>>

analysis_vars == <<current_code, output, prompt, execution>>

ask_vars == <<user_question, conversation_context, questions,
              question_index>>

agent_vars == <<files, file_path, content_arg, instructions>>

vars == <<entry, pc, refinement_vars, research_vars, write_vars,
          analysis_vars, ask_vars, agent_vars>>

----------------------------------------------------------------------------
(* Bounds of the model *)

\* longest list of <axiom> elements in one oracle reply
MaxReplyLen == 2
\* largest max_iterations a caller of iterative_refinement passes
MaxIterations == 3
\* largest removal_threshold a caller of iterative_refinement passes
MaxThreshold == 3
\* largest iter_count an axiom passed to iterative_refinement carries
MaxInitCount == 2
\* longest list pdf_files passed to iterative_research
MaxPdfs == 2
\* largest number of pages of a document
MaxPages == 2
\* largest number of <summary> elements the oracle sends in one run
MaxSummaries == 3
\* largest max_iterations a caller of write_paper passes
MaxWriteIterations == 2

----------------------------------------------------------------------------
(* Helpers on sequences *)

RECURSIVE Flatten(_)
Flatten(ss) == IF ss = <<>> THEN <<>> ELSE Head(ss) \o Flatten(Tail(ss))

SeqsUpTo(S, n) == UNION {[1..k -> S] : k \in 0..n}

\* str.strip() on the tokens of the model: " " is an all-blank string
Strip(s) ==
    CASE s = " " -> ""
      [] s = " TRUE " -> "TRUE"
      [] OTHER -> s

----------------------------------------------------------------------------
(* The oracle's replies to the refinement prompt *)

\* str(uuid.uuid4()): the n-th call returns a string no earlier call returned
UuidPool == <<"u1", "u2", "u3", "u4", "u5", "u6", "u7", "u8">>

Uuid(n) == UuidPool[n]

\* keys the oracle invents (ids of no axiom it was shown); the oracle is free
\* in the string, "analysis" is the one run.py uses as well
InventedKeys == {"analysis"}

\* an <axiom key=.. original=..>text</axiom> element
\* (a blank text makes the parser fall back to the original attribute)
AxiomElems ==
    [key : seen_ids \ InventedKeys, original : {"o"}, text : {"p"}]
      \cup [key : InventedKeys, original : {"o"}, text : {" "}]

\* the <group> elements of a well-formed reply that holds the elements es:
\* the first element in a group of its own, the others in a second group
GroupsOf(es) ==
    IF es = <<>> THEN <<>>
    ELSE IF Len(es) = 1 THEN <<es>>
    ELSE <<SubSeq(es, 1, 1), SubSeq(es, 2, Len(es))>>

GroupLists == {GroupsOf(es) : es \in SeqsUpTo(AxiomElems, MaxReplyLen)}

\* a reply is a document ET.fromstring accepts, or one it rejects ("")
MalformedReply == [wellformed |-> FALSE, groups |-> <<>>]

RefinementReplies ==
    {MalformedReply}
      \cup {[wellformed |-> TRUE, groups |-> g] : g \in GroupLists}

----------------------------------------------------------------------------
(* research.py: parse_refinement_response *)

final_text(elem) ==
    IF Strip(elem.text) # "" THEN Strip(elem.text) ELSE Strip(elem.original)

parse_refinement_response(xml) ==
    IF ~xml.wellformed
    THEN <<>>
    ELSE LET elems == Flatten(xml.groups)
         IN  [i \in 1..Len(elems) |->
                 [id |-> Strip(elems[i].key), text |-> final_text(elems[i])]]

----------------------------------------------------------------------------
(* research.py: iterative_refinement *)

HasIterCount(a) == "iter_count" \in DOMAIN a

\* lines 262-264
EnsureIterCount(a) ==
    IF HasIterCount(a) THEN a
    ELSE [id |-> a.id, text |-> a.text, iter_count |-> 0]

Ids(as) == {as[i].id : i \in 1..Len(as)}

\* line 273: next((a for a in axioms if a['id'] == refined['id']), None)
FirstWithId(as, id) ==
    as[CHOOSE i \in 1..Len(as) :
          as[i].id = id /\ \A j \in 1..(i - 1) : as[j].id # id]

\* a refinement that forgets to age the axiom it refines
RefinedCount_NoIncrement(as, refined) ==
    IF refined.id \in Ids(as)
    THEN FirstWithId(as, refined.id).iter_count
    ELSE 1

\* lines 273-277
RefinedCount(as, refined) ==
    IF refined.id \in Ids(as)
    THEN FirstWithId(as, refined.id).iter_count + 1
    ELSE 1

WithCounts(as, refined_list) ==
    [i \in 1..Len(refined_list) |->
        [id |-> refined_list[i].id, text |-> refined_list[i].text,
         iter_count |-> RefinedCount(as, refined_list[i])]]

\* the variant that retires an axiom one round late
Kept_AtThreshold(refined, threshold) == refined.iter_count <= threshold

\* lines 279-282
Kept(refined, threshold) == refined.iter_count < threshold

NewAxioms(counted, threshold) ==
    SelectSeq(counted, LAMBDA r : Kept(r, threshold))

\* line 283: the list that replaces `axioms` at the end of a round
AxiomsAfterRound(as, counted, threshold) == NewAxioms(counted, threshold)

\* a loop that never leaves early
LoopBreaks_Never(new_axioms) == FALSE

\* lines 285-287: if not axioms: break
LoopBreaks(new_axioms) == new_axioms = <<>>

\* lines 262-264: on entry every axiom gets an iteration count
RefinementEntry ==
    /\ pc = "refinement_entry"
    /\ axioms' = [i \in 1..Len(axioms) |-> EnsureIterCount(axioms[i])]
    /\ pc' = "refinement_loop"
    /\ UNCHANGED <<entry, response_xml, refined_axioms, iteration,
                   max_iterations, removal_threshold, result, seen_ids,
                   gone_ids, research_vars,
                   write_vars, analysis_vars, ask_vars, agent_vars>>

\* lines 266-287: one pass of the for loop
RefinementRound ==
    /\ pc = "refinement_loop"
    /\ iteration < max_iterations
    /\ \E reply \in RefinementReplies :
         LET counted == WithCounts(axioms, parse_refinement_response(reply))
             new_axioms == AxiomsAfterRound(axioms, counted, removal_threshold)
         IN  /\ response_xml' = reply
             /\ refined_axioms' = counted
             /\ axioms' = new_axioms
             /\ seen_ids' = seen_ids \cup Ids(new_axioms)
             /\ gone_ids' = gone_ids \cup (Ids(axioms) \ Ids(new_axioms))
             /\ pc' = IF LoopBreaks(new_axioms) THEN "refinement_return"
                                             ELSE "refinement_loop"
    /\ iteration' = iteration + 1
    /\ UNCHANGED <<entry, max_iterations, removal_threshold, result,
                   research_vars,
                   write_vars, analysis_vars, ask_vars, agent_vars>>

\* line 266: range(max_iterations) is exhausted
RefinementCap ==
    /\ pc = "refinement_loop"
    /\ iteration >= max_iterations
    /\ pc' = "refinement_return"
    /\ UNCHANGED <<entry, refinement_vars, research_vars,
                   write_vars, analysis_vars, ask_vars, agent_vars>>

\* line 288
RefinementReturn ==
    /\ pc = "refinement_return"
    /\ result' = axioms
    /\ pc' = "done"
    /\ UNCHANGED <<entry, axioms, response_xml, refined_axioms, iteration,
                   max_iterations, removal_threshold, seen_ids, gone_ids,
                   research_vars,
                   write_vars, analysis_vars, ask_vars, agent_vars>>

----------------------------------------------------------------------------
(* research.py: read_pdf_sections, parse_research_response *)

PdfPool == <<"f1", "f2", "f3">>

PageTitles == <<"Page 1", "Page 2", "Page 3">>

\* lines 22-26: one section per page read
PdfSections(n) == [i \in 1..n |-> [title |-> PageTitles[i], text |-> "body"]]

\* how reading a document of up to MaxPages pages goes: without an
\* exception, with one of PdfReader(pdf_file) (line 20), or with one of
\* extract_text() on the page numbered `page` (line 24)
PdfReads ==
    {[pages |-> n, failure |-> "none", page |-> 0] : n \in 0..MaxPages}
      \cup {[pages |-> 0, failure |-> "open", page |-> 0]}
      \cup {[pages |-> n, failure |-> "extract", page |-> k] :
               n \in 1..MaxPages, k \in 1..MaxPages}

\* lines 18-30: the list is filled page by page inside the try block and
\* returned after the except branch as far as it was filled
read_pdf_sections(read) ==
    CASE read.failure = "none" -> PdfSections(read.pages)
      [] read.failure = "open" -> <<>>
      [] read.failure = "extract" -> PdfSections(read.page - 1)

\* a <summary> element of a reply; " " is a blank axiom_key, and for an
\* axiom of the prompt the reply carries a changed text
SummaryElems ==
    [axiom_key : {" "} \cup InventedKeys,
     axiom : {"t"}, section_ref : {"Results"}, text : {"s1", "s2"}]
      \cup [axiom_key : Ids(initial_axioms),
            axiom : {"t2"}, section_ref : {"Results"}, text : {"s1", "s2"}]

\* the oracle's replies to the research prompt of one section
ResearchReplies ==
    {[wellformed |-> FALSE, summaries |-> <<>>]}
      \cup {[wellformed |-> TRUE, summaries |-> ss] :
               ss \in SeqsUpTo(SummaryElems,
                               MaxSummaries - Len(summaries_log))}

\* lines 51-68
parse_research_response(xml) ==
    IF ~xml.wellformed
    THEN <<>>
    ELSE [i \in 1..Len(xml.summaries) |->
             [axiom_key |-> Strip(xml.summaries[i].axiom_key),
              section |-> Strip(xml.summaries[i].section_ref),
              summary |-> Strip(xml.summaries[i].text),
              axiom |-> Strip(xml.summaries[i].axiom)]]

----------------------------------------------------------------------------
(* research.py: iterative_research, lines 71-158 *)

Keys(mapping) == {mapping[i].key : i \in 1..Len(mapping)}

\* evidence_mapping[key], for a key of the mapping
Lookup(mapping, key) ==
    mapping[CHOOSE i \in 1..Len(mapping) : mapping[i].key = key].evidences

\* evidence_mapping.get(key, [])
LookupOrEmpty(mapping, key) ==
    IF key \in Keys(mapping) THEN Lookup(mapping, key) ELSE <<>>

\* lines 141-142: if axiom_key not in evidence_mapping: ... = []
EnsureKey(mapping, key) ==
    IF key \in Keys(mapping) THEN mapping
    ELSE Append(mapping, [key |-> key, evidences |-> <<>>])

\* lines 150-154: evidence_mapping[axiom_key].append(record)
AppendEvidence(mapping, key, record) ==
    [i \in 1..Len(mapping) |->
        IF mapping[i].key = key
        THEN [key |-> key, evidences |-> Append(mapping[i].evidences, record)]
        ELSE mapping[i]]

\* a store that starts the key's list afresh at every record
RecordEvidence_Overwrite(mapping, key, record) ==
    IF key \in Keys(mapping)
    THEN [i \in 1..Len(mapping) |->
             IF mapping[i].key = key
             THEN [key |-> key, evidences |-> <<record>>]
             ELSE mapping[i]]
    ELSE Append(mapping, [key |-> key, evidences |-> <<record>>])

\* lines 141-142 and 150-154
RecordEvidence(mapping, key, record) ==
    AppendEvidence(EnsureKey(mapping, key), key, record)

\* an update that assigns the summary's text to the axiom it names
AxiomsAfterSummary_Retext(as, uuids, s) ==
    IF s.axiom_key \in Ids(as)
    THEN [i \in 1..Len(as) |->
             IF as[i].id = s.axiom_key
             THEN [id |-> as[i].id, text |-> s.axiom]
             ELSE as[i]]
    ELSE Append(as, [id |-> Uuid(uuids + 1), text |-> s.axiom])

\* lines 143-149: a key that is the id of no axiom adds an axiom; line 147
\* compares the text of the axiom found and assigns nothing
AxiomsAfterSummary(as, uuids, s) ==
    IF s.axiom_key \in Ids(as) THEN as
    ELSE Append(as, [id |-> Uuid(uuids + 1), text |-> s.axiom])

\* lines 138-154: the body of `for s in summaries`
UpdateOnSummary(st, s, pdf_file) ==
    IF s.axiom_key = "" THEN st
    ELSE [axs |-> AxiomsAfterSummary(st.axs, st.uuids, s),
          uuids |-> IF s.axiom_key \in Ids(st.axs) THEN st.uuids
                                                   ELSE st.uuids + 1,
          ev |-> RecordEvidence(st.ev, s.axiom_key,
                                [pdf |-> pdf_file, section |-> s.section,
                                 summary |-> s.summary])]

\* lines 137-154
RECURSIVE ProcessSummaries(_, _, _)
ProcessSummaries(st, summaries, pdf_file) ==
    IF summaries = <<>> THEN st
    ELSE ProcessSummaries(UpdateOnSummary(st, Head(summaries), pdf_file),
                          Tail(summaries), pdf_file)

\* the parsed summaries as the history keeps them: the file, the section and
\* the place in the reply each came from
Logged(summaries, doc, sec) ==
    [i \in 1..Len(summaries) |->
        [doc |-> doc, sec |-> sec, pos |-> i, pdf |-> pdf_files[doc],
         axiom_key |-> summaries[i].axiom_key,
         section |-> summaries[i].section, summary |-> summaries[i].summary]]

\* lines 72-95: the axioms get their ids; axiom[id] at line 95 indexes each
\* axiom with the builtin `id`, a key no axiom has: KeyError for any axiom
ResearchStart ==
    /\ pc = "research_start"
    /\ initial_axioms' =
         [i \in 1..Len(axioms_arg) |-> [id |-> Uuid(i), text |-> axioms_arg[i]]]
    /\ uuid_count' = Len(axioms_arg)
    /\ seen_ids' = Ids(initial_axioms')
    /\ IF axioms_arg # <<>>
       THEN pc' = "raised" /\ error' = "KeyError"
       ELSE pc' = "research_file" /\ error' = error
    /\ UNCHANGED <<entry, axioms, response_xml, refined_axioms, iteration,
                   max_iterations, removal_threshold, result, gone_ids,
                   axioms_arg, pdf_files, pdf_index, sections, section_index,
                   evidence_mapping, summaries_log, read_failure,
                   write_vars, analysis_vars, ask_vars, agent_vars>>

\* lines 98-99: the next file is read
ReadPdf ==
    /\ pc = "research_file"
    /\ pdf_index <= Len(pdf_files)
    /\ \E read \in {r \in PdfReads : r.page <= r.pages} :
         /\ sections' = read_pdf_sections(read)
         /\ read_failure' = read.failure
    /\ section_index' = 1
    /\ pc' = "research_section"
    /\ UNCHANGED <<entry, refinement_vars, axioms_arg, pdf_files, pdf_index,
                   initial_axioms, evidence_mapping, uuid_count, error,
                   summaries_log,
                   write_vars, analysis_vars, ask_vars, agent_vars>>

\* lines 100-154: one section is sent to the oracle, its summaries are stored
ProcessSection ==
    /\ pc = "research_section"
    /\ section_index <= Len(sections)
    /\ \E reply \in ResearchReplies :
         LET summaries == parse_research_response(reply)
             st == ProcessSummaries([axs |-> initial_axioms,
                                     uuids |-> uuid_count,
                                     ev |-> evidence_mapping],
                                    summaries, pdf_files[pdf_index])
         IN  /\ initial_axioms' = st.axs
             /\ uuid_count' = st.uuids
             /\ evidence_mapping' = st.ev
             /\ seen_ids' = seen_ids \cup Ids(st.axs)
             /\ summaries_log' =
                  summaries_log \o Logged(summaries, pdf_index, section_index)
    /\ section_index' = section_index + 1
    /\ UNCHANGED <<entry, pc, axioms, response_xml, refined_axioms, iteration,
                   max_iterations, removal_threshold, result, gone_ids,
                   axioms_arg, pdf_files, pdf_index, sections, error,
                   read_failure, write_vars, analysis_vars, ask_vars, agent_vars>>

\* line 100: the sections of the file are exhausted
NextPdf ==
    /\ pc = "research_section"
    /\ section_index > Len(sections)
    /\ pdf_index' = pdf_index + 1
    /\ pc' = "research_file"
    /\ UNCHANGED <<entry, refinement_vars, axioms_arg, pdf_files, sections,
                   section_index, initial_axioms, evidence_mapping,
                   uuid_count, error, summaries_log, read_failure,
                   write_vars, analysis_vars, ask_vars, agent_vars>>

\* the removal threshold and the round cap of the call at line 157
PipelineMaxIterations == 3

PipelineRemovalThreshold == 2

\* line 157: iterative_refinement(initial_axioms, evidence_mapping, 3, 2)
CallRefinement ==
    /\ pc = "research_file"
    /\ pdf_index > Len(pdf_files)
    /\ axioms' = initial_axioms
    /\ max_iterations' = PipelineMaxIterations
    /\ removal_threshold' = PipelineRemovalThreshold
    /\ pc' = "refinement_entry"
    /\ UNCHANGED <<entry, response_xml, refined_axioms, iteration, result,
                   seen_ids, gone_ids, research_vars,
                   write_vars, analysis_vars, ask_vars, agent_vars>>

----------------------------------------------------------------------------
(* write.py: parse_write_response *)

\* str.lower() on the section names of the model
Lower(str) ==
    CASE str = "Results" -> "results"
      [] str = "RESULTS" -> "results"
      [] str = "Methods" -> "methods"
      [] str = "Appendix" -> "appendix"
      [] str = "TRUE" -> "true"
      [] OTHER -> str

\* a dict built by d[key] = value over a list of pairs: first insertion fixes
\* the place of a key, the last value stays
RECURSIVE DictOf(_)
DictOf(pairs) ==
    IF pairs = <<>> THEN <<>>
    ELSE LET p == pairs[Len(pairs)]
             rest == DictOf(SubSeq(pairs, 1, Len(pairs) - 1))
         IN  IF \E i \in 1..Len(rest) : rest[i].key = p.key
             THEN [i \in 1..Len(rest) |->
                      IF rest[i].key = p.key THEN p ELSE rest[i]]
             ELSE Append(rest, p)

DictKeys(dict) == {dict[i].key : i \in 1..Len(dict)}

\* the <section name=..> elements of a reply ("Appendix" is no paper section)
SectionElems == [name : {"Results", "Appendix"}, text : {"new"}]

\* the <deep_dive section=.. axiom_key=..> elements of a reply
DeepDiveElems ==
    [section : {"Results"}, axiom_key : {"", "u1"}, text : {"more"}]
      \cup [section : {"Appendix"}, axiom_key : {""}, text : {"more"}]

\* the <done> element: its text, or "empty" for <done/>
DoneElems == {" TRUE ", "false", "empty"}

\* a reply holds no <section> element or one, no <deep_dive> or one
SectionLists == {<<>>} \cup {<<e>> : e \in SectionElems}

DeepDiveLists == {<<>>} \cup {<<e>> : e \in DeepDiveElems}

\* the oracle's replies to the write prompt
WriteReplies ==
    {[wellformed |-> FALSE, has_skeleton |-> FALSE, sections |-> <<>>,
      deep_dives |-> <<>>, done |-> "absent"]}
      \cup [wellformed : {TRUE}, has_skeleton : {TRUE},
            sections : SectionLists,
            deep_dives : DeepDiveLists,
            done : DoneElems]

\* lines 37-42
ParsedSkeleton(xml) ==
    IF xml.has_skeleton
    THEN DictOf([i \in 1..Len(xml.sections) |->
                    [key |-> Strip(xml.sections[i].name),
                     value |-> Strip(xml.sections[i].text)]])
    ELSE <<>>

\* lines 44-48
ParsedDeepDive(xml) ==
    DictOf([i \in 1..Len(xml.deep_dives) |->
               [key |-> Strip(xml.deep_dives[i].section),
                value |-> [axiom_key |-> Strip(xml.deep_dives[i].axiom_key),
                           text |-> Strip(xml.deep_dives[i].text)]]])

\* lines 50-52; <done/> has no text and .strip() raises inside the try
ParsedDone(xml) ==
    xml.done \notin {"absent", "empty"} /\ Lower(Strip(xml.done)) = "true"

\* lines 32-55
parse_write_response(xml) ==
    IF ~xml.wellformed
    THEN [updated_skeleton |-> <<>>, deep_dive |-> <<>>, done |-> FALSE]
    ELSE [updated_skeleton |-> ParsedSkeleton(xml),
          deep_dive |-> ParsedDeepDive(xml),
          done |-> ParsedDone(xml)]

----------------------------------------------------------------------------
(* write.py: write_paper *)

SectionNames ==
    <<"Abstract", "Introduction", "Methods", "Results", "Discussion",
      "Conclusion">>

Placeholder(name) ==
    CASE name = "Abstract" -> "Placeholder abstract."
      [] name = "Introduction" -> "Placeholder introduction."
      [] name = "Methods" -> "Placeholder methods."
      [] name = "Results" -> "Placeholder results."
      [] name = "Discussion" -> "Placeholder discussion."
      [] name = "Conclusion" -> "Placeholder conclusion."

\* lines 82-89; a section's content is its text and the deep-dive blocks
\* appended to it
DefaultSkeleton ==
    [i \in 1..Len(SectionNames) |->
        [key |-> SectionNames[i],
         value |-> [text |-> Placeholder(SectionNames[i]), dives |-> <<>>]]]

\* a merge that keeps what was appended to the section before
MergeSection_KeepDives(skel, section, content) ==
    IF section \in DictKeys(skel)
    THEN [i \in 1..Len(skel) |->
             IF skel[i].key = section
             THEN [key |-> section,
                   value |-> [text |-> content, dives |-> skel[i].value.dives]]
             ELSE skel[i]]
    ELSE Append(skel, [key |-> section,
                       value |-> [text |-> content, dives |-> <<>>]])

\* lines 169-170: skeleton[section] = content
MergeSection(skel, section, content) ==
    IF section \in DictKeys(skel)
    THEN [i \in 1..Len(skel) |->
             IF skel[i].key = section
             THEN [key |-> section, value |-> [text |-> content, dives |-> <<>>]]
             ELSE skel[i]]
    ELSE Append(skel, [key |-> section,
                       value |-> [text |-> content, dives |-> <<>>]])

RECURSIVE MergeSkeleton(_, _)
MergeSkeleton(skel, updated) ==
    IF updated = <<>> THEN skel
    ELSE MergeSkeleton(MergeSection(skel, Head(updated).key, Head(updated).value),
                       Tail(updated))

\* a selection that forgets to compare the sections
MatchingLines_AnySection(key, evidences, sec) ==
    [i \in 1..Len(evidences) |-> [axiom |-> key, ev |-> evidences[i]]]

\* lines 181-184 and 187-190: the records of one key that match the section
MatchingLines(key, evidences, sec) ==
    LET hits == SelectSeq(evidences,
                          LAMBDA ev : Lower(ev.section) = Lower(sec))
    IN  [i \in 1..Len(hits) |-> [axiom |-> key, ev |-> hits[i]]]

\* lines 187-190: every key of the mapping, in the dict's order
RECURSIVE AllMatchingLines(_, _)
AllMatchingLines(mapping, sec) ==
    IF mapping = <<>> THEN <<>>
    ELSE MatchingLines(Head(mapping).key, Head(mapping).evidences, sec)
           \o AllMatchingLines(Tail(mapping), sec)

\* the variant that takes the records of every key, whatever key is named
EvidenceForDeepDive_AllKeys(mapping, sec, requested_axiom) ==
    AllMatchingLines(mapping, sec)

\* lines 179-190
EvidenceForDeepDive(mapping, sec, requested_axiom) ==
    IF requested_axiom # ""
    THEN MatchingLines(requested_axiom, LookupOrEmpty(mapping, requested_axiom),
                       sec)
    ELSE AllMatchingLines(mapping, sec)

\* line 194: skeleton[sec] += block
AppendDive(skel, sec, block) ==
    [i \in 1..Len(skel) |->
        IF skel[i].key = sec
        THEN [key |-> sec,
              value |-> [text |-> skel[i].value.text,
                         dives |-> Append(skel[i].value.dives, block)]]
        ELSE skel[i]]

\* lines 175-194 for one request; skeleton[sec] of a section the skeleton
\* does not hold raises KeyError, after line 192 has run
ProcessDeepDive(st, sec, info, mapping) ==
    LET block == [section |-> sec, instruction |-> info.text,
                  evidence |-> EvidenceForDeepDive(mapping, sec, info.axiom_key)]
    IN  IF sec \in DictKeys(st.skel)
        THEN [skel |-> AppendDive(st.skel, sec, block),
              dde |-> Append(st.dde, block), raised |-> FALSE]
        ELSE [skel |-> st.skel, dde |-> Append(st.dde, block), raised |-> TRUE]

\* lines 173-194
RECURSIVE ProcessDeepDives(_, _, _)
ProcessDeepDives(st, deep_dive, mapping) ==
    IF deep_dive = <<>> \/ st.raised THEN st
    ELSE ProcessDeepDives(
             ProcessDeepDive(st, Head(deep_dive).key, Head(deep_dive).value,
                             mapping),
             Tail(deep_dive), mapping)

\* lines 202-204: section, underline, content
NameLength(name) ==
    CASE name = "Abstract" -> 8
      [] name = "Introduction" -> 12
      [] name = "Methods" -> 7
      [] name = "Results" -> 7
      [] name = "Discussion" -> 10
      [] name = "Conclusion" -> 10
      [] name = "Appendix" -> 8
      [] OTHER -> 0

ComposePaper(skel) ==
    [i \in 1..Len(skel) |->
        [section |-> skel[i].key, dashes |-> NameLength(skel[i].key),
         content |-> skel[i].value]]

\* the sections of a skeleton that carry a deep-dive block
DivedSections(skel) ==
    {skel[i].key : i \in {j \in 1..Len(skel) : skel[j].value.dives # <<>>}}

\* lines 82-104
WriteEntry ==
    /\ pc = "write_entry"
    /\ skeleton' = DefaultSkeleton
    /\ iteration' = 0
    /\ done' = FALSE
    /\ deep_dive_evidence' = <<>>
    /\ pc' = "write_loop"
    /\ UNCHANGED <<entry, axioms, response_xml, refined_axioms, max_iterations,
                   removal_threshold, result, seen_ids, gone_ids,
                   research_vars, requests, dive_log, final_paper,
                   analysis_vars, ask_vars, agent_vars>>

\* lines 132-137: the part of the prompt that shows deep_dive_evidence; an
\* empty deep_dive_evidence adds nothing to the prompt
WritePrompt(dde) == [kind |-> "write", deep_dive_evidence |-> dde]

\* the variant that keeps the blocks of the rounds before
DeepDiveReset_Keep(dde) == dde

\* line 173: deep_dive_evidence = ""
DeepDiveReset(dde) == <<>>

\* lines 106-199: one pass of the while loop
WriteRound ==
    /\ pc = "write_loop"
    /\ ~done /\ iteration < max_iterations
    /\ iteration' = iteration + 1
    /\ requests' = requests + 1
    /\ prompt' = WritePrompt(deep_dive_evidence)
    /\ \E reply \in WriteReplies :
         LET parsed == parse_write_response(reply)
             merged == MergeSkeleton(skeleton, parsed.updated_skeleton)
             st == ProcessDeepDives([skel |-> merged,
                                     dde |-> DeepDiveReset(deep_dive_evidence),
                                     raised |-> FALSE],
                                    parsed.deep_dive, evidence_mapping)
         IN  /\ response_xml' = reply
             /\ done' = parsed.done
             /\ skeleton' = st.skel
             /\ deep_dive_evidence' = st.dde
             /\ dive_log' = dive_log \cup DivedSections(skeleton')
             /\ IF st.raised
                THEN pc' = "raised" /\ error' = "KeyError"
                ELSE pc' = "write_loop" /\ error' = error
    /\ UNCHANGED <<entry, axioms, refined_axioms, max_iterations,
                   removal_threshold, result, seen_ids, gone_ids, axioms_arg,
                   pdf_files, pdf_index, sections, section_index,
                   initial_axioms, evidence_mapping, uuid_count,
                   summaries_log, read_failure, final_paper, current_code,
                   output, execution, ask_vars, agent_vars>>

\* lines 201-206: the loop has ended, the paper is composed and returned
WriteCompose ==
    /\ pc = "write_loop"
    /\ done \/ iteration >= max_iterations
    /\ final_paper' = ComposePaper(skeleton)
    /\ pc' = "done"
    /\ UNCHANGED <<entry, refinement_vars, research_vars, skeleton, done,
                   deep_dive_evidence, requests, dive_log, analysis_vars,
                   ask_vars, agent_vars>>

----------------------------------------------------------------------------
(* The reply parsers on a reply text: a tagged block and the text around it *)

\* what stands before and after the block: nothing, blanks, words
Wrappers == {"", " ", "text"}

\* a reply text around the blocks of the set
TextsOf(blocks) == [prefix : Wrappers, block : blocks, suffix : Wrappers]

Bare(block) == [prefix |-> "", block |-> block, suffix |-> ""]

\* ET.fromstring(response_xml) on the whole reply: blanks around the root
\* element are accepted, any other text there is a ParseError
FromString(text) ==
    IF Strip(text.prefix) = "" /\ Strip(text.suffix) = ""
    THEN text.block
    ELSE [text.block EXCEPT !.wellformed = FALSE]

Returned(value) == [raised |-> "none", value |-> value]

Raised(exception) == [raised |-> exception, value |-> <<>>]

\* the blocks of the parsers that search with
\* re.search(r'<(\w+)[^>]*>.*?</\1>', ..): "none" holds no element with its
\* closing tag, "mismatched" is matched by the pattern and rejected by
\* ET.fromstring, "open" lacks the root's closing tag so that the pattern
\* matches the first child element instead
BlockKinds == {"none", "mismatched", "open", "wellformed"}

\* the <done> element of these replies; "absent" for a reply without one
FlagElems == {"true", " TRUE ", "false", "absent", "empty"}

\* whether the reference to root after the try block finds root assigned
RootBound(block) == block.kind \in {"open", "wellformed"}

\* done_elem is not None and done_elem.text.strip().lower() == "true"
FlagOf(flag) == flag # "absent" /\ Lower(Strip(flag)) = "true"

\* --- ask.py: parse_llm_response (lines 73-102)
LlmReplies ==
    [kind : BlockKinds, questions : SeqsUpTo({"q1", ""}, 1), done : FlagElems]

\* lines 92-97: a <question> without text is skipped
QuestionsOf(block) ==
    LET kept == SelectSeq(block.questions, LAMBDA q : q # "")
    IN  [i \in 1..Len(kept) |-> Strip(kept[i])]

parse_llm_response(text) ==
    LET block == text.block
    IN  IF ~RootBound(block) THEN Raised("UnboundLocalError")
        ELSE IF block.kind = "open"
        THEN Returned([questions |-> <<>>, done |-> FALSE])
        ELSE IF block.done = "empty" THEN Raised("AttributeError")
        ELSE Returned([questions |-> QuestionsOf(block),
                       done |-> FlagOf(block.done)])

\* --- analysis.py: parse_code_response (lines 12-47)
CodeReplies ==
    [kind : BlockKinds, code : {"absent", "c1"}, requirements : {"absent", "req"},
     done : FlagElems]

parse_code_response(text) ==
    LET block == text.block
    IN  IF ~RootBound(block) THEN Raised("UnboundLocalError")
        ELSE IF block.kind = "open"
        THEN Returned([code |-> "", done |-> FALSE, req_elem |-> "None"])
        ELSE IF block.done = "empty" THEN Raised("AttributeError")
        ELSE Returned(
                 [code |-> IF block.code = "absent" THEN ""
                           ELSE Strip(block.code),
                  done |-> FlagOf(block.done),
                  req_elem |-> IF block.requirements = "absent" THEN "None"
                               ELSE block.requirements])

\* --- analysis.py: parse_summary_response (lines 49-71)
SummaryReplies ==
    [kind : BlockKinds, summary : {"absent", "sum"}, graphs : {"absent", "gr"}]

parse_summary_response(text) ==
    LET block == text.block
    IN  IF ~RootBound(block) THEN Raised("UnboundLocalError")
        ELSE IF block.kind = "open"
        THEN Returned([summary |-> "", graphs |-> ""])
        ELSE Returned(
                 [summary |-> IF block.summary = "absent" THEN ""
                              ELSE Strip(block.summary),
                  graphs |-> IF block.graphs = "absent" THEN ""
                             ELSE Strip(block.graphs)])

\* --- ask.py: parse_distilled_response (lines 9-71)
DistilledAxioms == [id : {"a1"}, text : {"t", ""}, supporting_evidence : {"e"}]

DistilledReplies ==
    [wellformed : BOOLEAN, question : {"absent", "dq"},
     axioms : SeqsUpTo(DistilledAxioms, 1)]

parse_distilled_response(xml) ==
    IF ~xml.wellformed
    THEN [distilled_question |-> "", axioms |-> <<>>]
    ELSE [distilled_question |-> IF xml.question = "absent" THEN ""
                                 ELSE Strip(xml.question),
          axioms |-> [i \in 1..Len(xml.axioms) |->
                         [id |-> Strip(xml.axioms[i].id),
                          text |-> Strip(xml.axioms[i].text),
                          supporting_evidence |->
                              Strip(xml.axioms[i].supporting_evidence)]]]

\* the parsers, by name
Parsers ==
    {"parse_llm_response", "parse_distilled_response",
     "parse_research_response", "parse_refinement_response",
     "parse_write_response", "parse_code_response",
     "parse_summary_response"}

\* the blocks a parser is given
BlocksFor(parser) ==
    CASE parser = "parse_llm_response" -> LlmReplies
      [] parser = "parse_distilled_response" -> DistilledReplies
      [] parser = "parse_research_response" -> ResearchReplies
      [] parser = "parse_refinement_response" -> RefinementReplies
      [] parser = "parse_write_response" -> WriteReplies
      [] parser = "parse_code_response" -> CodeReplies
      [] parser = "parse_summary_response" -> SummaryReplies

\* the parser's call on a reply text, as its caller sees it
ParseWith(parser, text) ==
    CASE parser = "parse_llm_response" -> parse_llm_response(text)
      [] parser = "parse_distilled_response" ->
             Returned(parse_distilled_response(FromString(text)))
      [] parser = "parse_research_response" ->
             Returned(parse_research_response(FromString(text)))
      [] parser = "parse_refinement_response" ->
             Returned(parse_refinement_response(FromString(text)))
      [] parser = "parse_write_response" ->
             Returned(parse_write_response(FromString(text)))
      [] parser = "parse_code_response" -> parse_code_response(text)
      [] parser = "parse_summary_response" -> parse_summary_response(text)

\* a call of one parser on the reply text held in response_xml
ParseCall(parser) ==
    /\ pc = "parse_call"
    /\ result' = ParseWith(parser, response_xml)
    /\ error' = result'.raised
    /\ pc' = IF result'.raised = "none" THEN "done" ELSE "raised"
    /\ UNCHANGED <<entry, axioms, response_xml, refined_axioms, iteration,
                   max_iterations, removal_threshold, seen_ids, gone_ids,
                   axioms_arg, pdf_files, pdf_index, sections, section_index,
                   initial_axioms, evidence_mapping, uuid_count,
                   summaries_log, read_failure, write_vars, analysis_vars, ask_vars, agent_vars>>

CallParseLlm ==
    /\ entry = "parse_llm_response"
    /\ ParseCall("parse_llm_response")

CallParseDistilled ==
    /\ entry = "parse_distilled_response"
    /\ ParseCall("parse_distilled_response")

CallParseResearch ==
    /\ entry = "parse_research_response"
    /\ ParseCall("parse_research_response")

CallParseRefinement ==
    /\ entry = "parse_refinement_response"
    /\ ParseCall("parse_refinement_response")

CallParseWrite ==
    /\ entry = "parse_write_response"
    /\ ParseCall("parse_write_response")

CallParseCode ==
    /\ entry = "parse_code_response"
    /\ ParseCall("parse_code_response")

CallParseSummary ==
    /\ entry = "parse_summary_response"
    /\ ParseCall("parse_summary_response")

----------------------------------------------------------------------------
(* agent.py: LitellmFileSystemAgent, lines 18-73 *)

Paths == {"p1", "p2"}

\* a text is the sequence of its pieces; "\r\n" and "\r" are line endings
Texts == {<<>>, <<"a">>, <<"a", "\r\n", "b">>, <<"a", "\r", "b">>}

Instructions == {"i1", "i2"}

\* the file systems over Paths: a path exists when it is in the domain
FileSystems == UNION {[S -> Texts] : S \in SUBSET Paths}

\* open(file_path, "r", encoding="utf-8") (line 33): newline=None reads the
\* line endings "\r\n" and "\r" as "\n"
UniversalNewlines(text) ==
    [i \in 1..Len(text) |-> IF text[i] \in {"\r\n", "\r"} THEN "\n"
                            ELSE text[i]]

\* the variant that takes a missing file for an empty one
read_file_Missing(fs, path) ==
    IF path \in DOMAIN fs THEN Returned(UniversalNewlines(fs[path]))
    ELSE Returned(<<>>)

\* lines 31-34
read_file(fs, path) ==
    IF path \notin DOMAIN fs THEN Raised("FileNotFoundError")
    ELSE Returned(UniversalNewlines(fs[path]))

\* the variant that opens the file for appending
write_file_Append(fs, path, text) ==
    [q \in DOMAIN fs \cup {path} |->
        IF q # path THEN fs[q]
        ELSE IF path \in DOMAIN fs THEN fs[path] \o text ELSE text]

\* lines 44-45: open(file_path, "w") truncates or creates the file; "\n" is
\* written as os.linesep, which is "\n" here, other characters as they are
write_file(fs, path, text) ==
    [q \in DOMAIN fs \cup {path} |-> IF q = path THEN text ELSE fs[q]]

\* lines 59-65
LatexPrompt(original_content, ins) ==
    [kind |-> "edit_latex", content |-> original_content,
     instructions |-> ins]

\* read_file(file_path) called
CallReadFile ==
    /\ pc = "agent"
    /\ entry' = "read_file"
    /\ \E path \in Paths :
         /\ file_path' = path
         /\ result' = read_file(files, path)
    /\ content_arg' = <<>>
    /\ instructions' = ""
    /\ requests' = 0
    /\ UNCHANGED <<pc, axioms, response_xml, refined_axioms, iteration,
                   max_iterations, removal_threshold, seen_ids, gone_ids,
                   research_vars, skeleton, done, deep_dive_evidence,
                   dive_log, final_paper, analysis_vars, ask_vars, files>>

\* write_file(file_path, content) called
CallWriteFile ==
    /\ pc = "agent"
    /\ entry' = "write_file"
    /\ \E path \in Paths, text \in Texts :
         /\ file_path' = path
         /\ content_arg' = text
         /\ files' = write_file(files, path, text)
    /\ result' = Returned(<<>>)
    /\ instructions' = ""
    /\ requests' = 0
    /\ UNCHANGED <<pc, axioms, response_xml, refined_axioms, iteration,
                   max_iterations, removal_threshold, seen_ids, gone_ids,
                   research_vars, skeleton, done, deep_dive_evidence,
                   dive_log, final_paper, analysis_vars, ask_vars>>

\* lines 58-73: edit_latex_file(file_path, instructions) called; the reply
\* of completion() is an input
CallEditLatexFile ==
    /\ pc = "agent"
    /\ entry' = "edit_latex_file"
    /\ content_arg' = <<>>
    /\ \E path \in Paths, ins \in Instructions, updated_content \in Texts :
         LET original == read_file(files, path)
         IN  /\ file_path' = path
             /\ instructions' = ins
             /\ IF original.raised # "none"
                THEN /\ result' = original
                     /\ requests' = 0
                     /\ UNCHANGED <<files, prompt>>
                ELSE /\ prompt' = LatexPrompt(original.value, ins)
                     /\ requests' = 1
                     /\ files' = write_file(files, path, updated_content)
                     /\ result' = Returned(updated_content)
    /\ UNCHANGED <<pc, axioms, response_xml, refined_axioms, iteration,
                   max_iterations, removal_threshold, seen_ids, gone_ids,
                   research_vars, skeleton, done, deep_dive_evidence,
                   dive_log, final_paper, current_code, output, execution,
                   ask_vars>>

----------------------------------------------------------------------------
(* ask.py: ask, lines 104-150: the clarification loop *)

\* the newest exchanges of conversation_context the model keeps
MaxContext == 4

\* what the user types at input()
UserQuestions == {"uq1", "uq2"}

Answers == {"yes", "no"}

\* lines 118-131: the reply format the prompt spells out
PromptText ==
    Bare([kind |-> "wellformed",
          questions |-> <<"First probing question?",
                          "Second probing question?">>,
          done |-> "true|false"])

\* line 146: conversation_context += "\nLLM: {q}\nUser: {answer}"
Exchange(q, answer) == [llm |-> q, user |-> answer]

Newest(context) ==
    IF Len(context) <= MaxContext THEN context
    ELSE SubSeq(context, Len(context) - MaxContext + 1, Len(context))

\* lines 116-139: the prompt is built, line 133 takes the prompt itself as
\* the reply (no oracle request is made), the reply is parsed, and the loop
\* is left when it holds no question
AskRound ==
    /\ pc = "ask_loop"
    /\ ~done
    /\ response_xml' = PromptText
    /\ LET call == parse_llm_response(response_xml')
       IN  IF call.raised # "none"
           THEN /\ pc' = "raised"
                /\ error' = call.raised
                /\ UNCHANGED <<questions, done>>
           ELSE /\ questions' = call.value.questions
                /\ done' = call.value.done
                /\ pc' = IF questions' = <<>> THEN "ask_distill"
                         ELSE "ask_answers"
                /\ error' = error
    /\ question_index' = 1
    /\ UNCHANGED <<entry, axioms, refined_axioms, iteration, max_iterations,
                   removal_threshold, result, seen_ids, gone_ids, axioms_arg,
                   pdf_files, pdf_index, sections, section_index,
                   initial_axioms, evidence_mapping, uuid_count,
                   summaries_log, read_failure, skeleton, deep_dive_evidence, requests,
                   dive_log, final_paper, analysis_vars, user_question,
                   conversation_context, agent_vars>>

\* lines 142-146: one probing question is shown and the answer recorded;
\* after the last one the while condition is tested again
AskAnswer ==
    /\ pc = "ask_answers"
    /\ \E answer \in Answers :
         conversation_context' =
             Newest(Append(conversation_context,
                           Exchange(questions[question_index], answer)))
    /\ IF question_index < Len(questions)
       THEN question_index' = question_index + 1 /\ pc' = pc
       ELSE /\ question_index' = question_index
            /\ pc' = IF done THEN "ask_distill" ELSE "ask_loop"
    /\ UNCHANGED <<entry, refinement_vars, research_vars, write_vars,
                   analysis_vars, user_question, questions, agent_vars>>

----------------------------------------------------------------------------
(* analysis.py: iterative_statistical_analysis, lines 73-226 *)

\* line 88: max_iterations = 5
AnalysisMaxIterations == 5

\* a text built by +: its non-empty pieces, in order
Text(pieces) == SelectSeq(pieces, LAMBDA piece : piece # "")

\* how a run of the generated file ends (subprocess.run, line 191): the exit
\* status and what was captured of the two streams
Executions == [returncode : {0, 1}, stdout : {"", "out"}, stderr : {"", "err"}]

\* no run of the generated file yet, or none in the last round
NoExecution == [returncode |-> -1, stdout |-> "", stderr |-> ""]

\* what the file system does with the two files of a round (lines 162-179)
DiskOutcomes == {"ok", "code_fails", "reqs_fail"}

\* no oracle request yet
NoPrompt == [kind |-> "none", code |-> "", output |-> <<>>]

\* lines 95-147: what the prompt of a round shows of the previous round
CodePrompt(iter, code, out) ==
    IF iter = 1
    THEN [kind |-> "first", code |-> "", output |-> <<>>]
    ELSE [kind |-> "refine", code |-> code, output |-> out]

\* lines 200-217: the summary prompt shows the last output
SummaryPrompt(out) == [kind |-> "summary", code |-> "", output |-> out]

\* the variant that drops the error stream of a failed run
ExecutionOutput_StdoutOnly(run) == Text(<<run.stdout>>)

\* lines 190-196: check=True raises CalledProcessError on a non-zero status
ExecutionOutput(run) ==
    IF run.returncode = 0
    THEN Text(<<run.stdout>>)
    ELSE Text(<<run.stdout, "\nError:\n", run.stderr>>)

\* the variant that lets the oracle's flag stand after a failed run
DoneAfterRun_KeepFlag(flag, run) == flag

\* lines 155 and 193-197: done is the flag of the reply unless the run
\* failed, which sets it to False
DoneAfterRun(flag, run) == IF run.returncode = 0 THEN flag ELSE FALSE

\* lines 156-158, 162-168, 170-179: whether the round leaves the loop before
\* the generated file is run
Breaks(parsed, disk) ==
    \/ parsed.code = ""
    \/ disk = "code_fails"
    \/ parsed.req_elem # "None" /\ disk = "reqs_fail"

\* lines 93-197: one pass of the while loop
AnalysisRound ==
    /\ pc = "analysis_loop"
    /\ ~done /\ iteration < max_iterations
    /\ iteration' = iteration + 1
    /\ prompt' = CodePrompt(iteration', current_code, output)
    /\ \E block \in CodeReplies, run \in Executions, disk \in DiskOutcomes :
         LET call == parse_code_response(Bare(block))
             parsed == call.value
         IN  IF call.raised # "none"
             THEN /\ pc' = "raised"
                  /\ error' = call.raised
                  /\ execution' = NoExecution
                  /\ UNCHANGED <<current_code, output, done>>
             ELSE IF Breaks(parsed, disk)
             THEN /\ pc' = "analysis_summary"
                  /\ done' = parsed.done
                  /\ current_code' = IF parsed.code = "" THEN current_code
                                     ELSE parsed.code
                  /\ execution' = NoExecution
                  /\ UNCHANGED <<output, error>>
             ELSE /\ pc' = "analysis_loop"
                  /\ current_code' = parsed.code
                  /\ execution' = run
                  /\ output' = ExecutionOutput(run)
                  /\ done' = DoneAfterRun(parsed.done, run)
                  /\ UNCHANGED error
    /\ UNCHANGED <<entry, axioms, response_xml, refined_axioms,
                   max_iterations, removal_threshold, result, seen_ids,
                   gone_ids, axioms_arg, pdf_files, pdf_index, sections,
                   section_index, initial_axioms, evidence_mapping,
                   uuid_count, summaries_log, read_failure, skeleton, deep_dive_evidence,
                   requests, dive_log, final_paper, ask_vars, agent_vars>>

\* lines 199-226: the loop has ended, the summary is requested and returned
AnalysisSummary ==
    /\ \/ pc = "analysis_summary"
       \/ pc = "analysis_loop" /\ (done \/ iteration >= max_iterations)
    /\ prompt' = SummaryPrompt(output)
    /\ \E block \in SummaryReplies :
         LET call == parse_summary_response(Bare(block))
         IN  IF call.raised # "none"
             THEN pc' = "raised" /\ error' = call.raised /\ result' = result
             ELSE pc' = "done" /\ error' = error /\ result' = call.value
    /\ UNCHANGED <<entry, axioms, response_xml, refined_axioms, iteration,
                   max_iterations, removal_threshold, seen_ids, gone_ids,
                   axioms_arg, pdf_files, pdf_index, sections, section_index,
                   initial_axioms, evidence_mapping, uuid_count,
                   summaries_log, read_failure, write_vars, current_code, output,
                   execution, ask_vars, agent_vars>>

----------------------------------------------------------------------------
(* run.py: run_research_pipeline, lines 59-70 *)

\* what iterative_statistical_analysis returns (line 57)
AnalysisResults == [summary : {"", "sum"}, graphs : {"", "gr"}]

\* lines 59-63
analysis_evidence(res) ==
    [pdf |-> "Statistical Analysis Report", section |-> "Analysis",
     summary |-> <<res.summary, "Graph Instructions: ", res.graphs>>]

\* line 65
analysis_axiom ==
    [id |-> "analysis", text |-> "Statistical analysis results",
     iter_count |-> 0]

\* evidence_mapping[key] = value: a key the dict holds keeps its place
SetKey(mapping, key, value) ==
    IF key \in Keys(mapping)
    THEN [i \in 1..Len(mapping) |->
             IF mapping[i].key = key
             THEN [key |-> key, evidences |-> value]
             ELSE mapping[i]]
    ELSE Append(mapping, [key |-> key, evidences |-> value])

\* lines 59-67: the analysis evidence is stored under the key "analysis"
RecordAnalysis ==
    /\ pc = "pipeline_analysis"
    /\ \E res \in AnalysisResults :
         evidence_mapping' =
             SetKey(evidence_mapping, "analysis", <<analysis_evidence(res)>>)
    /\ axioms' = Append(axioms, analysis_axiom)
    /\ pc' = "pipeline_write"
    /\ UNCHANGED <<entry, response_xml, refined_axioms, iteration,
                   max_iterations, removal_threshold, result, seen_ids,
                   gone_ids, axioms_arg, pdf_files, pdf_index, sections,
                   section_index, initial_axioms, uuid_count, error,
                   summaries_log, read_failure, write_vars, analysis_vars, ask_vars, agent_vars>>

\* line 70: write_paper is called without its parameter research_excerpts,
\* the call raises TypeError before the function body runs
CallWritePaper ==
    /\ pc = "pipeline_write"
    /\ pc' = "raised"
    /\ error' = "TypeError"
    /\ UNCHANGED <<entry, refinement_vars, axioms_arg, pdf_files, pdf_index,
                   sections, section_index, initial_axioms, evidence_mapping,
                   uuid_count, summaries_log, read_failure, write_vars, analysis_vars,
                   ask_vars, agent_vars>>

----------------------------------------------------------------------------
(* Initial states *)

\* the refinement loop before its first round
RefinementIdle ==
    /\ response_xml = [wellformed |-> FALSE, groups |-> <<>>]
    /\ refined_axioms = <<>>
    /\ iteration = 0
    /\ result = <<>>
    /\ gone_ids = {}

\* write_paper before its first statement
WriteIdle ==
    /\ skeleton = <<>>
    /\ done = FALSE
    /\ deep_dive_evidence = <<>>
    /\ requests = 0
    /\ dive_log = {}
    /\ final_paper = <<>>

\* iterative_statistical_analysis before its first statement
AnalysisIdle ==
    /\ current_code = ""
    /\ output = <<>>
    /\ prompt = NoPrompt
    /\ execution = NoExecution

\* no method of the agent called, no file looked at
AgentIdle ==
    /\ files = <<>>
    /\ file_path = ""
    /\ content_arg = <<>>
    /\ instructions = ""

\* ask before its first statement
AskIdle ==
    /\ user_question = ""
    /\ conversation_context = <<>>
    /\ questions = <<>>
    /\ question_index = 1

\* iterative_research before its first statement
ResearchIdle ==
    /\ pdf_index = 1
    /\ sections = <<>>
    /\ section_index = 1
    /\ initial_axioms = <<>>
    /\ evidence_mapping = <<>>
    /\ uuid_count = 0
    /\ error = "none"
    /\ summaries_log = <<>>
    /\ read_failure = "none"

InitAxiomIds == {Uuid(1), Uuid(2)}

\* the axioms a caller passes: distinct ids, iter_count optional
InitAxioms ==
    {[id |-> i, text |-> "t"] : i \in InitAxiomIds}
      \cup [id : InitAxiomIds, text : {"t"}, iter_count : 0..MaxInitCount]

InitAxiomLists ==
    {as \in SeqsUpTo(InitAxioms, Cardinality(InitAxiomIds)) :
        \A i, j \in 1..Len(as) : as[i].id = as[j].id => i = j}

\* iterative_refinement called with arguments of the caller's choice
InitDirectCall ==
    /\ entry = "iterative_refinement"
    /\ axioms \in InitAxiomLists
    /\ max_iterations \in 0..MaxIterations
    /\ removal_threshold \in 0..MaxThreshold
    /\ axioms_arg = <<>>
    /\ pdf_files = <<>>
    /\ initial_axioms = <<>>

\* the call of line 157 with its last two arguments swapped
InitPipelineCall_Swapped ==
    /\ entry = "iterative_research"
    /\ axioms \in {as \in InitAxiomLists :
                      \A i \in 1..Len(as) : ~HasIterCount(as[i])}
    /\ max_iterations = PipelineRemovalThreshold
    /\ removal_threshold = PipelineMaxIterations
    /\ axioms_arg = <<>>
    /\ pdf_files = <<>>
    /\ initial_axioms = axioms

\* iterative_refinement as iterative_research calls it (line 157): the axioms
\* carry no iter_count, the cap is 3 and the threshold 2
InitPipelineCall ==
    /\ entry = "iterative_research"
    /\ axioms \in {as \in InitAxiomLists :
                      \A i \in 1..Len(as) : ~HasIterCount(as[i])}
    /\ max_iterations = PipelineMaxIterations
    /\ removal_threshold = PipelineRemovalThreshold
    /\ axioms_arg = <<>>
    /\ pdf_files = <<>>
    /\ initial_axioms = axioms

InitRefinement ==
    /\ pc = "refinement_entry"
    /\ InitDirectCall \/ InitPipelineCall
    /\ RefinementIdle
    /\ seen_ids = Ids(axioms)
    /\ pdf_index = 1
    /\ sections = <<>>
    /\ section_index = 1
    /\ evidence_mapping = <<>>
    /\ uuid_count = Len(initial_axioms)
    /\ error = "none"
    /\ summaries_log = <<>>
    /\ read_failure = "none"
    /\ WriteIdle
    /\ AnalysisIdle
    /\ AskIdle
    /\ AgentIdle

NextRefinement ==
    \/ RefinementEntry
    \/ RefinementRound
    \/ RefinementCap
    \/ RefinementReturn

\* iterative_refinement, from its call to its return
SpecRefinement == InitRefinement /\ [][NextRefinement]_vars

\* the loop is sequential code: a step that can be taken is taken
FairSpecRefinement == SpecRefinement /\ WF_vars(NextRefinement)

InitResearch ==
    /\ entry = "iterative_research"
    /\ pc = "research_start"
    /\ axioms_arg \in SeqsUpTo({"t"}, 1)
    /\ pdf_files \in {SubSeq(PdfPool, 1, n) : n \in 0..MaxPdfs}
    /\ ResearchIdle
    /\ RefinementIdle
    /\ axioms = <<>>
    /\ max_iterations = 0
    /\ removal_threshold = 0
    /\ seen_ids = {}
    /\ WriteIdle
    /\ AnalysisIdle
    /\ AskIdle
    /\ AgentIdle

NextResearch ==
    \/ ResearchStart
    \/ ReadPdf
    \/ ProcessSection
    \/ NextPdf
    \/ CallRefinement

\* iterative_research, from its call to its call of iterative_refinement
SpecResearch == InitResearch /\ [][NextResearch]_vars

\* evidence records of the stores write_paper is called with
WriteRecords ==
    <<[pdf |-> "f1", section |-> "RESULTS", summary |-> "s1"],
      [pdf |-> "f1", section |-> "Methods", summary |-> "s2"],
      [pdf |-> "f2", section |-> "results", summary |-> "s2"]>>

\* the evidence mappings write_paper is called with
WriteStores ==
    {<<>>,
     <<[key |-> "u1", evidences |-> SubSeq(WriteRecords, 1, 2)]>>,
     <<[key |-> "k", evidences |-> SubSeq(WriteRecords, 3, 3)],
       [key |-> "u1", evidences |-> SubSeq(WriteRecords, 2, 2)]>>,
     <<[key |-> "k", evidences |-> SubSeq(WriteRecords, 3, 3)],
       [key |-> "u1", evidences |-> SubSeq(WriteRecords, 1, 2)]>>}

InitWrite ==
    /\ entry = "write_paper"
    /\ pc = "write_entry"
    /\ max_iterations \in 0..MaxWriteIterations
    /\ evidence_mapping \in WriteStores
    /\ axioms \in {<<>>, <<[id |-> "u1", text |-> "t", iter_count |-> 1]>>}
    /\ RefinementIdle
    /\ removal_threshold = 0
    /\ seen_ids = {}
    /\ axioms_arg = <<>>
    /\ pdf_files = <<>>
    /\ pdf_index = 1
    /\ sections = <<>>
    /\ section_index = 1
    /\ initial_axioms = <<>>
    /\ uuid_count = 0
    /\ error = "none"
    /\ summaries_log = <<>>
    /\ read_failure = "none"
    /\ WriteIdle
    /\ AnalysisIdle
    /\ AskIdle
    /\ AgentIdle

NextWrite ==
    \/ WriteEntry
    \/ WriteRound
    \/ WriteCompose

\* write_paper, from its call to its return
SpecWrite == InitWrite /\ [][NextWrite]_vars

\* the evidence mappings iterative_research returns to line 46: keys are the
\* axiom_key strings of the summaries, records as lines 150-154 build them
PipelineStores ==
    {<<>>,
     <<[key |-> "u1", evidences |-> SubSeq(WriteRecords, 1, 2)]>>,
     <<[key |-> "analysis", evidences |-> SubSeq(WriteRecords, 3, 3)],
       [key |-> "u1", evidences |-> SubSeq(WriteRecords, 1, 1)]>>}

\* run_research_pipeline at line 59, with the values that lines 46 and 57
\* hand to it
InitAnalysisStep ==
    /\ entry = "run_research_pipeline"
    /\ pc = "pipeline_analysis"
    /\ evidence_mapping \in PipelineStores
    /\ axioms \in {as \in InitAxiomLists :
                      \A i \in 1..Len(as) : HasIterCount(as[i])}
    /\ RefinementIdle
    /\ max_iterations = 0
    /\ removal_threshold = 0
    /\ seen_ids = {}
    /\ axioms_arg = <<>>
    /\ pdf_files = <<>>
    /\ pdf_index = 1
    /\ sections = <<>>
    /\ section_index = 1
    /\ initial_axioms = <<>>
    /\ uuid_count = 0
    /\ error = "none"
    /\ summaries_log = <<>>
    /\ read_failure = "none"
    /\ WriteIdle
    /\ AnalysisIdle
    /\ AskIdle
    /\ AgentIdle

InitPipeline ==
    \/ InitResearch
    \/ InitRefinement
    \/ InitAnalysisStep
    \/ InitWrite

NextPipeline ==
    \/ NextResearch
    \/ NextRefinement
    \/ RecordAnalysis
    \/ CallWritePaper
    \/ NextWrite

\* the stages of the pipeline, each from its call with the values the stage
\* before it can hand over
SpecPipeline == InitPipeline /\ [][NextPipeline]_vars

\* a parser about to be called on a reply text
InitParsers ==
    /\ entry \in Parsers
    /\ pc = "parse_call"
    /\ seen_ids = InitAxiomIds
    /\ initial_axioms = <<>>
    /\ summaries_log = <<>>
    /\ read_failure = "none"
    /\ response_xml \in TextsOf(BlocksFor(entry))
    /\ axioms = <<>>
    /\ refined_axioms = <<>>
    /\ iteration = 0
    /\ result = <<>>
    /\ gone_ids = {}
    /\ max_iterations = 0
    /\ removal_threshold = 0
    /\ axioms_arg = <<>>
    /\ pdf_files = <<>>
    /\ pdf_index = 1
    /\ sections = <<>>
    /\ section_index = 1
    /\ evidence_mapping = <<>>
    /\ uuid_count = 0
    /\ error = "none"
    /\ WriteIdle
    /\ AnalysisIdle
    /\ AskIdle
    /\ AgentIdle

NextParsers ==
    \/ CallParseLlm
    \/ CallParseDistilled
    \/ CallParseResearch
    \/ CallParseRefinement
    \/ CallParseWrite
    \/ CallParseCode
    \/ CallParseSummary

\* each reply parser, called once on a reply text
SpecParsers == InitParsers /\ [][NextParsers]_vars

\* iterative_statistical_analysis called
InitAnalysis ==
    /\ entry = "iterative_statistical_analysis"
    /\ pc = "analysis_loop"
    /\ max_iterations = AnalysisMaxIterations
    /\ axioms \in {<<>>, <<[id |-> "u1", text |-> "t", iter_count |-> 1]>>}
    /\ RefinementIdle
    /\ removal_threshold = 0
    /\ seen_ids = {}
    /\ axioms_arg = <<>>
    /\ pdf_files = <<>>
    /\ ResearchIdle
    /\ WriteIdle
    /\ AnalysisIdle
    /\ AskIdle
    /\ AgentIdle

NextAnalysis ==
    \/ AnalysisRound
    \/ AnalysisSummary

SpecAnalysis == InitAnalysis /\ [][NextAnalysis]_vars

\* ask called, the user's question read (lines 112-114)
InitAsk ==
    /\ entry = "ask"
    /\ pc = "ask_loop"
    /\ user_question \in UserQuestions
    /\ conversation_context = <<>>
    /\ questions = <<>>
    /\ question_index = 1
    /\ axioms = <<>>
    /\ RefinementIdle
    /\ max_iterations = 0
    /\ removal_threshold = 0
    /\ seen_ids = {}
    /\ axioms_arg = <<>>
    /\ pdf_files = <<>>
    /\ ResearchIdle
    /\ WriteIdle
    /\ AnalysisIdle
    /\ AgentIdle

NextAsk ==
    \/ AskRound
    \/ AskAnswer

SpecAsk == InitAsk /\ [][NextAsk]_vars

\* the user answers every question that is shown
FairSpecAsk == SpecAsk /\ WF_vars(NextAsk)

\* an agent constructed (lines 9-16) over some file system
InitAgent ==
    /\ entry = "LitellmFileSystemAgent"
    /\ pc = "agent"
    /\ files \in FileSystems
    /\ file_path = ""
    /\ content_arg = <<>>
    /\ instructions = ""
    /\ axioms = <<>>
    /\ RefinementIdle
    /\ max_iterations = 0
    /\ removal_threshold = 0
    /\ seen_ids = {}
    /\ axioms_arg = <<>>
    /\ pdf_files = <<>>
    /\ ResearchIdle
    /\ WriteIdle
    /\ AnalysisIdle
    /\ AskIdle

NextAgent ==
    \/ CallReadFile
    \/ CallWriteFile
    \/ CallEditLatexFile

\* the methods of the agent, called in any order
SpecAgent == InitAgent /\ [][NextAgent]_vars

----------------------------------------------------------------------------
(* Properties of iterative_refinement *)

\* a step that runs one round of the for loop (lines 266-287)
RoundStep == pc = "refinement_loop" /\ iteration' = iteration + 1

ParsedReply(xml) == parse_refinement_response(xml)

NamedIds(xml) == {ParsedReply(xml)[i].id : i \in 1..Len(ParsedReply(xml))}

NamedTimes(id, xml) ==
    Cardinality({i \in 1..Len(ParsedReply(xml)) : ParsedReply(xml)[i].id = id})

\* C1: in a refinement round every axiom that is live before the round and is
\* not named in the oracle's parsed reply is still live after the round, with
\* the same id, text and iteration count.
C1_UnnamedAxiomsUntouched ==
    [][RoundStep =>
         \A i \in 1..Len(axioms) :
             axioms[i].id \notin NamedIds(response_xml')
                 => \E j \in 1..Len(axioms') : axioms'[j] = axioms[i]]_vars

\* C2: a round whose reply cannot be parsed is a no-op: the live axioms, their
\* texts and counts are the same after the round, and the loop goes on.
C2_UnparsedReplyIsNoOp ==
    [][RoundStep /\ ~response_xml'.wellformed
         => axioms' = axioms /\ pc' = "refinement_loop"]_vars

\* C3: a refinement entry (id, new_text) yields an axiom with that id and that
\* text; its iteration count is the live axiom's count plus 1 when an axiom
\* with that id is live, and 1 when none is (an unknown id is no error).
C3_ApplyRefinement ==
    [][RoundStep =>
         LET parsed == ParsedReply(response_xml')
         IN  /\ Len(refined_axioms') = Len(parsed)
             /\ \A i \in 1..Len(parsed) :
                   LET r == refined_axioms'[i]
                       live == {k \in 1..Len(axioms) : axioms[k].id = parsed[i].id}
                   IN  /\ r.id = parsed[i].id
                       /\ r.text = parsed[i].text
                       /\ live # {} =>
                            \E k \in live :
                                /\ \A m \in live : k <= m
                                /\ r.iter_count = axioms[k].iter_count + 1
                       /\ live = {} => r.iter_count = 1
                       /\ (\E j \in 1..Len(axioms') : axioms'[j] = r)
                            <=> r.iter_count < removal_threshold]_vars

\* C3 witness: a round has refined a live axiom (count 2 or more) and has
\* taken an entry with the invented id as a new axiom (count 1).
C3_Witness ==
    /\ iteration >= 1
    /\ \E i \in 1..Len(refined_axioms) : refined_axioms[i].iter_count >= 2
    /\ \E i \in 1..Len(refined_axioms) :
          /\ refined_axioms[i].id \in InventedKeys
          /\ refined_axioms[i].iter_count = 1
          /\ refined_axioms[i].text = "o"

\* C4: an axiom's iteration count never decreases while it is live and grows
\* by exactly 1 for each refinement entry that names its id, also when one
\* reply names the id more than once.
C4_CountGrowsPerEntry ==
    [][RoundStep =>
         \A i \in 1..Len(axioms), j \in 1..Len(axioms') :
             axioms[i].id = axioms'[j].id =>
                 /\ axioms'[j].iter_count >= axioms[i].iter_count
                 /\ axioms'[j].iter_count =
                      axioms[i].iter_count
                        + NamedTimes(axioms[i].id, response_xml')]_vars

\* C5: at the end of a round the axioms removed from the live set are exactly
\* those whose iteration count has reached the removal threshold, and the
\* retirement step never increases the number of live axioms.
C5_RetiresExactlyDue ==
    [][RoundStep =>
         /\ \A i \in 1..Len(axioms) :
               LET id == axioms[i].id
                   removed == id \notin Ids(axioms')
                   due == IF id \in NamedIds(response_xml')
                          THEN \E k \in 1..Len(refined_axioms') :
                                  /\ refined_axioms'[k].id = id
                                  /\ refined_axioms'[k].iter_count
                                       >= removal_threshold
                          ELSE axioms[i].iter_count >= removal_threshold
               IN  removed <=> due
         /\ Len(axioms') <= Len(refined_axioms')]_vars

\* C7: iterative_refinement terminates whatever the oracle replies: it runs at
\* most max_iterations rounds, stops before the cap exactly when the live list
\* is empty at the end of a round, and returns the live list it stopped with.
C7_RefinementTerminates ==
    /\ [](/\ iteration <= max_iterations
          /\ pc = "done" =>
               /\ result = axioms
               /\ iteration < max_iterations
                    => iteration >= 1 /\ axioms = <<>>)
    /\ [][/\ RoundStep /\ axioms' = <<>> => pc' = "refinement_return"
          /\ RoundStep /\ axioms' # <<>> => pc' = "refinement_loop"
          /\ pc = "refinement_return" => iteration' = iteration]_vars
    /\ <>(pc = "done")

\* C7 witness: the loop has returned before the cap, with an empty list.
C7_Witness ==
    /\ pc = "done"
    /\ iteration >= 1
    /\ iteration < max_iterations
    /\ result = <<>>

\* C6: axiom ids are never reused: no two live axioms share an id, and an id
\* that has left the live set is on no live axiom afterwards.
C6_IdsNeverReused ==
    /\ \A i, j \in 1..Len(axioms) : axioms[i].id = axioms[j].id => i = j
    /\ \A i, j \in 1..Len(initial_axioms) :
          initial_axioms[i].id = initial_axioms[j].id => i = j
    /\ Ids(axioms) \cap gone_ids = {}

\* the refinement loop as iterative_research runs it, on a non-empty list
PipelineRun == entry = "iterative_research" /\ initial_axioms # <<>>

\* C8 as stated: the refinement loop of the pipeline, started from a non-empty
\* axiom list, ends after exactly 3 rounds, not fewer.
C8_PipelineRunsExactlyCap ==
    PipelineRun /\ pc = "done" => iteration = PipelineMaxIterations

\* C8 as amended: the refinement loop of the pipeline, started from a
\* non-empty axiom list, ends after at most 3 rounds; it ends after fewer
\* only at a round that leaves the live list empty, and a round that leaves
\* an axiom live is followed by the next round until the third.
C8_PipelineRunsToCapOrEmpty ==
    /\ [](PipelineRun =>
            /\ iteration <= PipelineMaxIterations
            /\ pc = "done" =>
                 \/ iteration = PipelineMaxIterations
                 \/ iteration >= 1 /\ axioms = <<>>)
    /\ [][PipelineRun /\ RoundStep /\ axioms' # <<>>
            => pc' = "refinement_loop"]_vars

\* C8 witness: the pipeline's loop has ended after its second round because
\* every axiom the oracle refined had reached the threshold of 2.
C8_Witness ==
    /\ PipelineRun
    /\ pc = "done"
    /\ iteration = 2
    /\ refined_axioms # <<>>
    /\ \A i \in 1..Len(refined_axioms) :
          refined_axioms[i].iter_count = PipelineRemovalThreshold

\* iterative_refinement after its round number `iteration`
AfterRound ==
    /\ pc \in {"refinement_loop", "refinement_return", "done"}
    /\ iteration >= 1

\* every live axiom has a count of at most `rounds`
CountsWithin(as, rounds) ==
    \A i \in 1..Len(as) : as[i].iter_count <= rounds

\* every live axiom has a count from 1 to below the threshold and was named
\* in the last reply; a threshold of at most 1 leaves no axiom
AgedAndNamed ==
    /\ \A i \in 1..Len(axioms) :
          /\ 1 <= axioms[i].iter_count
          /\ axioms[i].iter_count < removal_threshold
          /\ axioms[i].id \in NamedIds(response_xml)
    /\ removal_threshold <= 1 => axioms = <<>>

----------------------------------------------------------------------------
(* Properties of the evidence gathering of iterative_research *)

\* the records the history holds for a key, in processing order
LoggedFor(key) ==
    LET hits == SelectSeq(summaries_log, LAMBDA e : e.axiom_key = key)
    IN  [i \in 1..Len(hits) |->
            [pdf |-> hits[i].pdf, section |-> hits[i].section,
             summary |-> hits[i].summary]]

\* document order, then section order, then order within the reply
Before(e, f) ==
    \/ e.doc < f.doc
    \/ e.doc = f.doc /\ e.sec < f.sec
    \/ e.doc = f.doc /\ e.sec = f.sec /\ e.pos < f.pos

\* C10: each parsed summary with a non-empty axiom_key appends exactly one
\* record to that key's list (creating it if absent): after N such summaries
\* for a key its list holds exactly their N records, in document order, then
\* section order, then order within the reply.
C10_EvidenceInCallOrder ==
    /\ \A i, j \in 1..Len(summaries_log) :
          i < j => Before(summaries_log[i], summaries_log[j])
    /\ Keys(evidence_mapping) =
          {summaries_log[i].axiom_key : i \in 1..Len(summaries_log)} \ {""}
    /\ \A i, j \in 1..Len(evidence_mapping) :
          evidence_mapping[i].key = evidence_mapping[j].key => i = j
    /\ \A i \in 1..Len(evidence_mapping) :
          evidence_mapping[i].evidences = LoggedFor(evidence_mapping[i].key)

\* C10 witness: a key holds three records, two from one file and the third
\* from the next file.
C10_Witness ==
    \E i \in 1..Len(evidence_mapping) :
        LET evs == evidence_mapping[i].evidences
        IN  /\ Len(evs) = 3
            /\ evs[1].pdf = evs[2].pdf
            /\ evs[1].summary # evs[2].summary
            /\ evs[2].pdf # evs[3].pdf

\* the summaries the step has processed
NewlyLogged ==
    SubSeq(summaries_log', Len(summaries_log) + 1, Len(summaries_log'))

\* a reply has been processed by lines 135-154
GatherStep ==
    /\ entry = "iterative_research"
    /\ pc = "research_section"
    /\ section_index' = section_index + 1

\* the summaries of the step that name no axiom of the list and are not empty
Unknown ==
    {i \in 1..Len(NewlyLogged) :
        NewlyLogged[i].axiom_key \notin Ids(initial_axioms) \cup {""}}

\* the number of evidence records of a mapping
RECURSIVE Records(_)
Records(mapping) ==
    IF mapping = <<>> THEN 0
    ELSE Len(Head(mapping).evidences) + Records(Tail(mapping))

\* C29: during gathering a summary whose axiom_key is the id of an axiom of
\* the list leaves the axiom list as it was (no axiom added, removed or
\* re-identified, every text kept), and a summary with an empty axiom_key
\* changes neither the axiom list nor the evidence mapping: the axioms
\* before the reply stay a prefix of the list, which grows by one axiom per
\* summary with another key, and the mapping grows by one record per
\* summary with a non-empty key.
C29_KnownOrEmptyKeyKeepsAxioms ==
    [][GatherStep =>
         /\ Len(initial_axioms') = Len(initial_axioms) + Cardinality(Unknown)
         /\ SubSeq(initial_axioms', 1, Len(initial_axioms)) = initial_axioms
         /\ Records(evidence_mapping') = Records(evidence_mapping)
              + Cardinality({i \in 1..Len(NewlyLogged) :
                                NewlyLogged[i].axiom_key # ""})
         /\ (\A i \in 1..Len(NewlyLogged) : NewlyLogged[i].axiom_key = "")
              => evidence_mapping' = evidence_mapping]_vars

\* C29 witness: a summary with an empty key and one that names an axiom of
\* the list have been processed, the list holds that axiom alone and with
\* the text it was created with.
C29_Witness ==
    /\ entry = "iterative_research"
    /\ pc = "research_section"
    /\ Len(initial_axioms) = 1
    /\ initial_axioms[1].text = "t"
    /\ \E i, j \in 1..Len(summaries_log) :
          /\ summaries_log[i].axiom_key = initial_axioms[1].id
          /\ summaries_log[j].axiom_key = ""

----------------------------------------------------------------------------
(* Properties of write_paper *)

\* write_paper has ended, by its return or by an exception
WriteEnded == entry = "write_paper" /\ pc \in {"done", "raised"}

\* C9: write_paper sends exactly one oracle request per round; it performs
\* exactly max_iterations rounds when no reply reports completion, and when
\* the reply of round k is the first one parsed with done = true it performs
\* exactly k rounds and sends no further request.
C9_WriteRoundsExact ==
    WriteEnded =>
        /\ requests = iteration
        /\ iteration <= max_iterations
        /\ IF done THEN iteration >= 1 ELSE iteration = max_iterations

\* the section names of a skeleton or of a composed paper, in their order
NamesOf(skel) == [i \in 1..Len(skel) |-> skel[i].key]

PaperSections(paper) == [i \in 1..Len(paper) |-> paper[i].section]

\* C13: in every state of write_paper and in the returned paper the section
\* names are exactly Abstract, Introduction, Methods, Results, Discussion,
\* Conclusion, in that order, whatever names the replies contain.
C13_SectionSetFixed ==
    /\ (entry = "write_paper" /\ pc # "write_entry")
           => NamesOf(skeleton) = SectionNames
    /\ (entry = "write_paper" /\ pc = "done")
           => PaperSections(final_paper) = SectionNames

IsPrefix(s, t) == Len(s) <= Len(t) /\ SubSeq(t, 1, Len(s)) = s

\* a step that runs one pass of the while loop (lines 106-199)
WriteStep == pc = "write_loop" /\ iteration' = iteration + 1

\* the content of a section of a skeleton that holds it
ContentOf(skel, sec) ==
    skel[CHOOSE i \in 1..Len(skel) : skel[i].key = sec].value

\* the blocks of a sequence, as a set
BlocksOf(blocks) == {blocks[i] : i \in 1..Len(blocks)}

\* C14: in a write round each section the parsed reply names has its text
\* replaced by the reply's text, and what earlier rounds appended to it is
\* gone (only this round's deep-dive blocks follow the text); each section the
\* reply does not name keeps its text and what was appended to it.
C14_MergeReplaces ==
    [][WriteStep =>
         LET updated == parse_write_response(response_xml').updated_skeleton
         IN  /\ \A i \in 1..Len(updated) :
                   LET c == ContentOf(skeleton', updated[i].key)
                   IN  /\ updated[i].key \in DictKeys(skeleton')
                       /\ c.text = updated[i].value
                       /\ BlocksOf(c.dives)
                            \subseteq BlocksOf(deep_dive_evidence')
             /\ \A sec \in DictKeys(skeleton) \ DictKeys(updated) :
                   /\ sec \in DictKeys(skeleton')
                   /\ ContentOf(skeleton', sec).text
                        = ContentOf(skeleton, sec).text
                   /\ IsPrefix(ContentOf(skeleton, sec).dives,
                               ContentOf(skeleton', sec).dives)]_vars

\* C14 witness: Results was given a deep-dive block in one round and a later
\* round replaced its text, leaving nothing appended; Methods, never named,
\* still has its first text.
C14_Witness ==
    /\ entry = "write_paper" /\ pc = "write_loop"
    /\ iteration = 2
    /\ "Results" \in dive_log
    /\ ContentOf(skeleton, "Results") = [text |-> "new", dives |-> <<>>]
    /\ ContentOf(skeleton, "Methods").text = "Placeholder methods."

\* C15: a reply that cannot be parsed gives an empty skeleton update, an
\* empty deep-dive map and done = False, and the round that receives it
\* changes nothing but the round counter: the skeleton and the deep-dive
\* evidence for the next prompt are as before, and the loop goes on.
C15_UnparsedWriteReplyIsNoOp ==
    [][WriteStep /\ ~response_xml'.wellformed =>
         /\ parse_write_response(response_xml')
              = [updated_skeleton |-> <<>>, deep_dive |-> <<>>, done |-> FALSE]
         /\ skeleton' = skeleton
         /\ deep_dive_evidence' = deep_dive_evidence
         /\ done' = done
         /\ pc' = "write_loop"]_vars

\* the key has no record for the section in the mapping (or is no key of it)
NoEvidenceFor(mapping, key, sec) ==
    \A i \in 1..Len(LookupOrEmpty(mapping, key)) :
        Lower(LookupOrEmpty(mapping, key)[i].section) # Lower(sec)

\* the deep-dive requests of the last reply, and the sections it names
Requests == parse_write_response(response_xml).deep_dive

Updates == parse_write_response(response_xml).updated_skeleton

\* C16: a deep-dive request for a section of the skeleton that names an axiom
\* key without a record for that section (the key may be absent from the
\* store) is no error: the block, with an empty evidence part, is appended to
\* that section, no other section changes, and the loop goes on.
C16_DeepDiveWithoutEvidence ==
    [][WriteStep =>
         \A i \in 1..Len(Requests') :
             LET sec == Requests'[i].key
                 info == Requests'[i].value
                 old == IF sec \in DictKeys(Updates')
                        THEN <<>> ELSE ContentOf(skeleton, sec).dives
             IN  (/\ sec \in DictKeys(skeleton)
                  /\ info.axiom_key # ""
                  /\ NoEvidenceFor(evidence_mapping, info.axiom_key, sec)
                  /\ DictKeys(Requests') \subseteq DictKeys(skeleton))
                 => /\ pc' = "write_loop"
                    /\ error' = error
                    /\ ContentOf(skeleton', sec).dives
                         = Append(old, [section |-> sec,
                                        instruction |-> info.text,
                                        evidence |-> <<>>])
                    /\ \A other \in DictKeys(skeleton) \
                            (DictKeys(Requests') \cup DictKeys(Updates')) :
                          ContentOf(skeleton', other)
                            = ContentOf(skeleton, other)]_vars

\* C16 witness: the store holds records for u1, none of them for Results, and
\* a deep dive for Results naming u1 has appended a block without evidence.
C16_Witness ==
    /\ entry = "write_paper" /\ pc = "write_loop"
    /\ iteration >= 1
    /\ "u1" \in Keys(evidence_mapping)
    /\ \E i \in 1..Len(Requests) :
          /\ Requests[i].key = "Results"
          /\ Requests[i].value.axiom_key = "u1"
    /\ LET dives == ContentOf(skeleton, "Results").dives
       IN  /\ dives # <<>>
           /\ dives[Len(dives)].evidence = <<>>

\* C17: whatever the oracle replies, write_paper runs at most max_iterations
\* rounds and returns the paper composed from the skeleton as it stands; no
\* reply makes it end with an exception instead of a paper.
C17_WriteAlwaysReturns ==
    entry = "write_paper" =>
        /\ iteration <= max_iterations
        /\ pc # "raised" /\ error = "none"
        /\ pc = "done" => final_paper = ComposePaper(skeleton)

\* the section names that differ in the case of their letters only
CaseClasses ==
    {{"Results", "RESULTS", "results"}, {"Methods", "methods"},
     {"Appendix", "appendix"}}

SameIgnoringCase(a, b) ==
    a = b \/ \E class \in CaseClasses : a \in class /\ b \in class

\* every record of the store with the key it is stored under, in store order
StoredLines(mapping) ==
    Flatten([i \in 1..Len(mapping) |->
                [j \in 1..Len(mapping[i].evidences) |->
                    [axiom |-> mapping[i].key,
                     ev |-> mapping[i].evidences[j]]]])

\* C25: the evidence gathered for a deep-dive request on a section is exactly
\* the stored records whose section equals it up to the case of the letters:
\* those of the named axiom key when the request names one, those of every
\* key, in store order, when it names none.
C25_DeepDiveEvidenceBySection ==
    [][WriteStep =>
         \A i \in 1..Len(deep_dive_evidence') :
             LET sec == Requests'[i].key
                 key == Requests'[i].value.axiom_key
             IN  /\ deep_dive_evidence'[i].section = sec
                 /\ deep_dive_evidence'[i].evidence
                      = SelectSeq(StoredLines(evidence_mapping),
                                  LAMBDA line :
                                      /\ SameIgnoringCase(line.ev.section, sec)
                                      /\ key = "" \/ line.axiom = key)]_vars

\* the last reply asked for a deep dive on a section for the key u1 while
\* the store holds a record of that section under another key, and evidence
\* was gathered
C25_Witness ==
    /\ entry = "write_paper"
    /\ Len(deep_dive_evidence) = 1
    /\ Requests[1].value.axiom_key = "u1"
    /\ deep_dive_evidence[1].evidence # <<>>
    /\ Len(evidence_mapping) >= 2

\* the blocks answer the requests one by one, in order
AnswersTo(blocks, reqs) ==
    /\ Len(blocks) = Len(reqs)
    /\ \A i \in 1..Len(blocks) :
          /\ blocks[i].section = reqs[i].key
          /\ blocks[i].instruction = reqs[i].value.text

\* C26: the prompt of a write round shows the deep-dive evidence gathered
\* from the reply of the round before it and of no earlier round: none in
\* the first round, none after a reply without a deep-dive request.
C26_PromptShowsLastDeepDiveOnly ==
    [][WriteStep =>
         /\ iteration = 0 => prompt'.deep_dive_evidence = <<>>
         /\ iteration > 0 => AnswersTo(prompt'.deep_dive_evidence, Requests)
         /\ pc' = "write_loop" => AnswersTo(deep_dive_evidence', Requests')]_vars

\* the second round was prompted with the evidence of the first reply's
\* deep-dive request, and its own reply, without a request, left none
C26_Witness ==
    /\ entry = "write_paper"
    /\ pc = "write_loop"
    /\ iteration = 2
    /\ prompt.deep_dive_evidence # <<>>
    /\ deep_dive_evidence = <<>>

----------------------------------------------------------------------------
(* Properties of the evidence store over the pipeline *)

C12_KeysAreAxiomIds ==
    entry = "iterative_research"
        => Keys(evidence_mapping) \subseteq Ids(initial_axioms)

----------------------------------------------------------------------------
(* Properties of the reply parsers *)

\* the block of the text is a well-formed tagged block
IsWellFormed(block) ==
    IF "kind" \in DOMAIN block THEN block.kind = "wellformed"
    ELSE block.wellformed

ParserEnded == entry \in Parsers /\ pc \in {"done", "raised"}

\* what the parser returns for a reply it can make nothing of
DefaultOf(parser) ==
    CASE parser = "parse_llm_response" -> [questions |-> <<>>, done |-> FALSE]
      [] parser = "parse_distilled_response" ->
             [distilled_question |-> "", axioms |-> <<>>]
      [] parser = "parse_research_response" -> <<>>
      [] parser = "parse_refinement_response" -> <<>>
      [] parser = "parse_write_response" ->
             [updated_skeleton |-> <<>>, deep_dive |-> <<>>, done |-> FALSE]
      [] parser = "parse_code_response" ->
             [code |-> "", done |-> FALSE, req_elem |-> "None"]
      [] parser = "parse_summary_response" -> [summary |-> "", graphs |-> ""]

C19_ParsersDegradeToDefault ==
    (ParserEnded /\ ~IsWellFormed(response_xml.block))
        => result = Returned(DefaultOf(entry))

----------------------------------------------------------------------------
(* Properties of iterative_statistical_analysis *)

\* a pass of the loop of iterative_statistical_analysis starts
AnalysisStep == pc = "analysis_loop" /\ iteration' = iteration + 1

Failed(run) == run.returncode > 0

\* the text shows the piece
Shows(text, piece) == piece = "" \/ \E i \in 1..Len(text) : text[i] = piece

\* C20: iterative_statistical_analysis starts at most 5 rounds; a round whose
\* generated code ends with a non-zero exit status leaves the loop running
\* with the flag unset, and the prompt of the round after it shows the
\* captured stdout and stderr of that run.
C20_FailedRunFeedsNextRound ==
    [][entry = "iterative_statistical_analysis" =>
         /\ iteration' <= 5
         /\ (AnalysisStep /\ Failed(execution')) =>
                /\ pc' = "analysis_loop" /\ ~done'
                /\ Shows(output', execution'.stdout)
                /\ Shows(output', execution'.stderr)
         /\ (AnalysisStep /\ Failed(execution)) =>
                /\ prompt'.kind = "refine"
                /\ prompt'.output = output
                /\ Shows(prompt'.output, execution.stdout)
                /\ Shows(prompt'.output, execution.stderr)]_vars

\* a second or later round was prompted with the output and the error
\* stream of a failed run
C20_Witness ==
    /\ entry = "iterative_statistical_analysis"
    /\ iteration >= 2
    /\ prompt.kind = "refine"
    /\ prompt.output = <<"out", "\nError:\n", "err">>

----------------------------------------------------------------------------
(* Properties of ask *)

\* C21: the clarification loop of ask ends after a bounded number of rounds,
\* also when every reply holds a probing question and none reports done.
C21_AskLoopEnds ==
    <>(entry = "ask" => pc \in {"ask_distill", "raised"})

----------------------------------------------------------------------------
(* Properties of read_pdf_sections within iterative_research *)

\* C22: when reading a document fails, on opening it or on extracting one
\* of its pages, iterative_research gets the empty sequence of sections for
\* it (so no evidence is recorded for the document) and goes on.
C22_FailedReadYieldsNoSections ==
    (entry = "iterative_research" /\ pc = "research_section"
         /\ read_failure # "none")
        => (sections = <<>> /\ error = "none")

----------------------------------------------------------------------------
(* Properties of LitellmFileSystemAgent *)

NotFound == [raised |-> "FileNotFoundError", value |-> <<>>]

Value(text) == [raised |-> "none", value |-> text]

\* the text with each of its line endings CR LF and CR replaced by LF
WithLF(text) ==
    [i \in DOMAIN text |->
        CASE text[i] = "\r\n" -> "\n"
          [] text[i] = "\r" -> "\n"
          [] OTHER -> text[i]]

\* a call on a path that does not exist: read_file raises, edit_latex_file
\* raises the same before any oracle request, no file is created or changed
MissingPathFails ==
    (entry' \in {"read_file", "edit_latex_file"}
         /\ file_path' \notin DOMAIN files)
        => (result' = NotFound /\ requests' = 0 /\ files' = files)

EditOverwrites ==
    (entry' = "edit_latex_file" /\ file_path' \in DOMAIN files)
        => /\ requests' = 1
           /\ prompt'.instructions = instructions'
           /\ result'.raised = "none"
           /\ DOMAIN files' = DOMAIN files
           /\ files'[file_path'] = result'.value
           /\ \A q \in DOMAIN files \ {file_path'} : files'[q] = files[q]

\* read_file(p) called right after write_file(p, c)
ReadsBack ==
    entry = "write_file" /\ entry' = "read_file" /\ file_path' = file_path

AnalysisEnded ==
    entry = "iterative_statistical_analysis" /\ pc \in {"done", "raised"}

\* C27: every call of iterative_statistical_analysis sends the summary
\* request once the loop has ended, whichever way it ended, with the output
\* of the last execution; a round without code writes and runs nothing.
C27_SummaryAlwaysRequested ==
    AnalysisEnded => (prompt.kind = "summary" /\ prompt.output = output)

\* the loop was left at its test with the flag set
ExitOnDone ==
    /\ entry = "iterative_statistical_analysis"
    /\ pc = "analysis_loop"
    /\ done

\* C30: the loop of iterative_statistical_analysis never ends on the done
\* flag after a round whose run failed: a failed run leaves the flag unset,
\* and when the loop ends with the flag set the code run in the last round
\* has exited with status zero.
C30_DoneOnlyAfterSuccessfulRun ==
    [][entry = "iterative_statistical_analysis" =>
         /\ (AnalysisStep /\ Failed(execution')) => ~done'
         /\ ExitOnDone' => execution'.returncode = 0]_vars

\* the oracle's flag ended the loop after a successful run that followed a
\* failed one
C30_Witness ==
    /\ ExitOnDone
    /\ iteration >= 2
    /\ Shows(prompt.output, "\nError:\n")
    /\ execution.returncode = 0

====
